---- MODULE Spec2Model ----
(***************************************************************************)
(* The three OpenXR API layers of the repository, as one state machine:    *)
(*   "capture"  the window-capture layer     (layer.cpp)                   *)
(*   "ipd"      the IPD-override layer       (capture.h, lines 145-471)    *)
(*   "draw"     the drawn-overlay layer      (capture.h, lines 473-944)    *)
(* and, as "winrt", one CaptureWindowWinRT object (capture.h, lines 57-110)  *)
(* with the frame pool it reads, as the capture layer uses it.             *)
(* A process loads one build of OpenXrLayer; `layer` says which part runs. *)
(*                                                                         *)
(* Lengths and positions are integers in units of 0.1 mm.  The inputs are  *)
(* drawn from a lattice on which every division and square root of the     *)
(* vector math is exact, so float rounding is not part of the model; the   *)
(* one non-finite case, 0/0 in Normalize, is kept as NaN3.                 *)
(***************************************************************************)
EXTENDS Integers, Sequences, FiniteSets, TLC

VARIABLES
    layer,                          \* which OpenXrLayer is loaded
    instanceCreated,                \* xrCreateInstance has returned XR_SUCCESS
    m_bypassApiLayer,
    m_compositionFrameworkFactory,  \* TRUE: the shared_ptr is non-null
    m_inputFrameworkFactory,        \* TRUE: the shared_ptr is non-null
    wasSystemNameLogged,            \* static local of xrGetSystem (capture, draw)
    m_systemId,                     \* ipd layer
    m_lastSeenIPD,                  \* ipd layer: std::optional<float>
    appViews,                       \* ipd layer: the application's XrView array
    compositions,                   \* sessions for which getCompositionFramework is non-null
    sessionData,                    \* session -> NoSessionData or the SessionData object
    inputBlocked,                   \* draw layer: session -> last blockApplicationInput argument
    captureWindow,                  \* a CaptureWindowWinRT object and its frame pool
    lastCall                        \* what the most recent intercepted call did

vars == <<layer, instanceCreated, m_bypassApiLayer, m_compositionFrameworkFactory,
          m_inputFrameworkFactory, wasSystemNameLogged, m_systemId, m_lastSeenIPD,
          appViews, compositions, captureWindow, sessionData, inputBlocked, lastCall>>

\* The state of the layer objects themselves (everything but the observation lastCall
\* and the application's own buffers).
layerState == <<instanceCreated, m_bypassApiLayer, m_compositionFrameworkFactory,
                m_inputFrameworkFactory, wasSystemNameLogged, m_systemId, m_lastSeenIPD,
                sessionData, inputBlocked>>

----------------------------------------------------------------------------
(* Bounds of the model *)

\* Longest frameEndInfo->layers array the application submits.
MaxLayers == 2

\* Upper limit of the integer square root search.
MaxLength == 4096

(* Program constants *)

\* constexpr float IPDOverride = 0.09f, in units of 0.1 mm.
IPDOverride == 900

\* xr::StereoView::Count, the size of the patched views array.
StereoViewCount == 2

Sessions == {1, 2}

XR_NULL_SYSTEM_ID == 0

SuccessResults == {"XR_SUCCESS", "XR_SESSION_LOSS_PENDING"}
FailureResults == {"XR_ERROR_RUNTIME_FAILURE"}
DownstreamResults == SuccessResults \cup FailureResults

\* XR_SUCCEEDED(result): result >= 0, which the qualified successes satisfy too.
XR_SUCCEEDED(result) == result \in SuccessResults

\* An exception leaving the method (CHECK_XRCMD / CHECK_HRCMD throw).
Thrown == "THROWN"

----------------------------------------------------------------------------
(* Vector math of xr::math, as overrideIPD uses it *)

Zero3 == <<0, 0, 0>>

\* A vector whose components are NaN.
NaN3 == <<>>

IsNaN(v) == v = NaN3

\* An exact quotient; an inexact one means the input lattice was chosen wrongly
\* and stops model checking.
ExactDiv(a, b) == IF a % b = 0 THEN a \div b ELSE CHOOSE q \in {} : TRUE

VAdd(a, b) == IF IsNaN(a) \/ IsNaN(b) THEN NaN3
              ELSE <<a[1] + b[1], a[2] + b[2], a[3] + b[3]>>

VSub(a, b) == IF IsNaN(a) \/ IsNaN(b) THEN NaN3
              ELSE <<a[1] - b[1], a[2] - b[2], a[3] - b[3]>>

\* v * (num / den)
VScale(v, num, den) ==
    IF IsNaN(v) THEN NaN3
    ELSE <<ExactDiv(v[1] * num, den), ExactDiv(v[2] * num, den), ExactDiv(v[3] * num, den)>>

Dot(a, b) == a[1] * b[1] + a[2] * b[2] + a[3] * b[3]

RECURSIVE SqrtSearch(_, _, _)
SqrtSearch(n, lo, hi) ==
    IF lo >= hi THEN lo
    ELSE LET mid == (lo + hi + 1) \div 2
         IN  IF mid * mid <= n THEN SqrtSearch(n, mid, hi) ELSE SqrtSearch(n, lo, mid - 1)

Sqrt(n) == LET r == SqrtSearch(n, 0, MaxLength)
           IN  IF r * r = n THEN r ELSE CHOOSE q \in {} : TRUE

\* Length(v) = sqrt(Dot(v, v)); -1 stands for a NaN length.
Length(v) == IF IsNaN(v) THEN -1 ELSE Sqrt(Dot(v, v))

\* Normalize(vec) * s, with Normalize(a) = a / sqrt(Dot(a, a)): 0/0 is NaN.
NormalizeTimes(vec, s) ==
    IF IsNaN(vec) THEN NaN3
    ELSE IF Dot(vec, vec) = 0 THEN NaN3
    ELSE VScale(vec, s, Length(vec))

\* The distance between two positions; -1 when either is NaN.
Distance(a, b) == Length(VSub(a, b))

\* float overrideIPD(XrPosef& leftEye, XrPosef& rightEye, float IPD) const
\* The two positions after the call and the value returned.
overrideIPD(leftEye, rightEye, IPD) ==
    LET vec    == VSub(leftEye, rightEye)
        center == VAdd(leftEye, VScale(vec, 1, 2))
        offset == NormalizeTimes(vec, ExactDiv(IPD, 2))
    IN  [left  |-> VSub(center, offset),
         right |-> VAdd(center, offset),
         ret   |-> Length(vec)]

----------------------------------------------------------------------------
(* Observation of a call *)

NoIPD == [has |-> FALSE, value |-> 0]
SomeIPD(x) == [has |-> TRUE, value |-> x]

NoSessionData == [exists |-> FALSE]

NoCall == [op |-> "none", valid |-> TRUE, session |-> 0,
           dsCalled |-> FALSE, dsResult |-> "none", returned |-> "none",
           submitted |-> <<>>, appAfter |-> <<>>, forwarded |-> <<>>,
           trace |-> <<>>,
           \* xrLocateViews
           runtimeViews |-> <<>>, returnedViews |-> <<>>, capacity |-> 0,
           viewConfig |-> "none", keyPressed |-> FALSE,
           \* xrEndFrame of the capture and draw layers
           composition |-> FALSE, captured |-> "none",
           overlayVisible |-> FALSE, aim |-> [valid |-> FALSE, x |-> 0, y |-> 0]]

\* All sequences over S of length 0..n.
RECURSIVE SeqsUpTo(_, _)
SeqsUpTo(S, n) ==
    IF n = 0 THEN {<<>>}
    ELSE LET shorter == SeqsUpTo(S, n - 1)
         IN  shorter \cup {Append(s, x) : s \in {t \in shorter : Len(t) = n - 1}, x \in S}

----------------------------------------------------------------------------
(* The IPD-override layer: capture.h, class OpenXrLayer at lines 192-444 *)

ViewConfigs == {"PRIMARY_STEREO", "PRIMARY_MONO"}
FormFactors == {"HEAD_MOUNTED_DISPLAY", "HANDHELD_DISPLAY"}
SystemIds == {1, 2}

\* viewCapacityInput: the size query (0) or room for both views.
Capacities == {0, StereoViewCount}

\* Eye positions <<left, right>> a runtime may report: 60 mm apart on an oblique
\* axis, and coincident.
RuntimeViewPairs == { << <<-180, -240, 0>>, <<180, 240, 0>> >>,
                      << Zero3, Zero3 >> }

\* What the downstream xrLocateViews writes to the views array it is given: both
\* views, the single view of a mono configuration, or nothing.
RuntimeWrites(result, viewCapacityInput, viewConfigurationType, rt) ==
    IF XR_SUCCEEDED(result) /\ viewCapacityInput # 0
    THEN IF viewConfigurationType = "PRIMARY_STEREO" THEN rt ELSE <<rt[1]>>
    ELSE <<>>

\* Ipd_LocateViewsTypesOk without the check of viewState->type.
Ipd_LocateViewsTypesOk_InfoOnly(infoTypeOk, stateTypeOk) == infoTypeOk

\* xrLocateViews: the type checks at the top.
Ipd_LocateViewsTypesOk(infoTypeOk, stateTypeOk) == infoTypeOk /\ stateTypeOk

\* Ipd_PatchViews with the deactivate key leaving m_lastSeenIPD as it was.
Ipd_PatchViews_NoReset(views, lastSeen, result, viewCapacityInput, viewConfigurationType, isDeactivateKeyPressed) ==
    IF XR_SUCCEEDED(result) /\ viewCapacityInput # 0
       /\ viewConfigurationType = "PRIMARY_STEREO" /\ ~isDeactivateKeyPressed
    THEN LET o == overrideIPD(views[1], views[2], IPDOverride)
         IN  [views |-> <<o.left, o.right>>, ipd |-> SomeIPD(o.ret)]
    ELSE [views |-> views, ipd |-> lastSeen]

\* Ipd_PatchViews with the reset of m_lastSeenIPD as the else of the outer test.
Ipd_PatchViews_ResetOutside(views, lastSeen, result, viewCapacityInput, viewConfigurationType, isDeactivateKeyPressed) ==
    IF XR_SUCCEEDED(result) /\ viewCapacityInput # 0
       /\ viewConfigurationType = "PRIMARY_STEREO" /\ ~isDeactivateKeyPressed
    THEN LET o == overrideIPD(views[1], views[2], IPDOverride)
         IN  [views |-> <<o.left, o.right>>, ipd |-> SomeIPD(o.ret)]
    ELSE [views |-> views, ipd |-> NoIPD]

\* xrLocateViews: the block after the downstream call.  The views array and
\* m_lastSeenIPD it leaves.
Ipd_PatchViews(views, lastSeen, result, viewCapacityInput, viewConfigurationType, isDeactivateKeyPressed) ==
    IF XR_SUCCEEDED(result) /\ viewCapacityInput # 0
       /\ viewConfigurationType = "PRIMARY_STEREO"
    THEN IF ~isDeactivateKeyPressed
         THEN LET o == overrideIPD(views[1], views[2], IPDOverride)
              IN  [views |-> <<o.left, o.right>>, ipd |-> SomeIPD(o.ret)]
         ELSE [views |-> views, ipd |-> NoIPD]
    ELSE [views |-> views, ipd |-> lastSeen]

Ipd_xrLocateViews(infoTypeOk, stateTypeOk, result, viewCapacityInput, viewConfigurationType, isDeactivateKeyPressed, rt) ==
    /\ layer = "ipd"
    /\ instanceCreated
    /\ IF ~Ipd_LocateViewsTypesOk(infoTypeOk, stateTypeOk)
       THEN /\ lastCall' = [NoCall EXCEPT !.op = "xrLocateViews", !.valid = FALSE,
                                !.session = 1,
                                !.returned = "XR_ERROR_VALIDATION_FAILURE"]
            /\ UNCHANGED <<m_lastSeenIPD, appViews>>
       ELSE LET written == RuntimeWrites(result, viewCapacityInput,
                                         viewConfigurationType, rt)
            IN  \E p \in {Ipd_PatchViews(written, m_lastSeenIPD, result, viewCapacityInput,
                                         viewConfigurationType, isDeactivateKeyPressed)} :
                /\ m_lastSeenIPD' = p.ipd
                \* the application keeps the stereo views it was last given
                /\ appViews' = IF Len(p.views) = StereoViewCount THEN p.views
                               ELSE appViews
                /\ lastCall' = [NoCall EXCEPT
                                   !.op = "xrLocateViews",
                                   !.valid = infoTypeOk /\ stateTypeOk,
                                   !.session = 1,
                                   !.dsCalled = TRUE, !.dsResult = result,
                                   !.returned = result,
                                   !.trace = <<"OpenXrApi::xrLocateViews">>,
                                   !.runtimeViews = written,
                                   !.returnedViews = p.views,
                                   !.capacity = viewCapacityInput,
                                   !.viewConfig = viewConfigurationType,
                                   !.keyPressed = isDeactivateKeyPressed]
    /\ UNCHANGED <<layer, instanceCreated, m_bypassApiLayer, m_compositionFrameworkFactory,
                   m_inputFrameworkFactory, wasSystemNameLogged, m_systemId,
                   compositions, captureWindow, sessionData, inputBlocked>>

\* The composition layers an application submits.
NullLayer == [null |-> TRUE, type |-> "none", viewCount |-> 0, views |-> <<>>]
QuadLayer == [null |-> FALSE, type |-> "XR_TYPE_COMPOSITION_LAYER_QUAD",
              viewCount |-> 0, views |-> <<>>]
ProjLayer(views) == [null |-> FALSE, type |-> "XR_TYPE_COMPOSITION_LAYER_PROJECTION",
                     viewCount |-> Len(views), views |-> views]

\* The layers an application may submit, given the views it last located.
Ipd_LayerChoices(located) ==
    { NullLayer, QuadLayer,
      ProjLayer(<<located[1]>>),
      ProjLayer(located),
      ProjLayer(<<Zero3, Zero3>>) }

\* xrEndFrame: the condition under which layers[i] is copied and patched.
Ipd_NeedsPatch(L, lastSeen) ==
    /\ ~L.null
    /\ L.type = "XR_TYPE_COMPOSITION_LAYER_PROJECTION"
    /\ L.viewCount = StereoViewCount
    /\ lastSeen.has

\* Ipd_ForwardLayer patching the application's structure in place.
Ipd_ForwardLayer_InPlace(i, k, L, lastSeen) ==
    IF Ipd_NeedsPatch(L, lastSeen)
    THEN LET o == overrideIPD(L.views[1], L.views[2], lastSeen.value)
             patched == [L EXCEPT !.views = <<o.left, o.right>>]
         IN  [ptr |-> <<"app", i>>, layer |-> patched, app |-> patched]
    ELSE [ptr |-> <<"app", i>>, layer |-> L, app |-> L]

\* xrEndFrame: one iteration of the loop, for layers[i] = L when projAllocator
\* already holds k copies.  The pointer pushed to layersPtrAllocator, the structure
\* it points to, and the application's structure after the iteration.
Ipd_ForwardLayer(i, k, L, lastSeen) ==
    IF Ipd_NeedsPatch(L, lastSeen)
    THEN LET o == overrideIPD(L.views[1], L.views[2], lastSeen.value)
         IN  [ptr   |-> <<"projAllocator", k + 1>>,
              layer |-> [L EXCEPT !.views = <<o.left, o.right>>],
              app   |-> L]
    ELSE [ptr |-> <<"app", i>>, layer |-> L, app |-> L]

\* Ipd_NullLayers looking at layers[0] only.
Ipd_NullLayers_FirstOnly(layers) == {i \in 1..Len(layers) : i = 1 /\ layers[i].null}

\* xrEndFrame: the indices i with frameEndInfo->layers[i] == nullptr.
Ipd_NullLayers(layers) == {i \in 1..Len(layers) : layers[i].null}

\* The number of copies made for layers[1..i-1].
Ipd_CopiesBefore(layers, i, lastSeen) ==
    Cardinality({j \in 1..(i - 1) : Ipd_NeedsPatch(layers[j], lastSeen)})

Ipd_xrEndFrame(typeOk, layers, result) ==
    /\ layer = "ipd"
    /\ instanceCreated
    /\ LET n == Len(layers)
           nulls == Ipd_NullLayers(layers)
           \* the loop stops at the first null pointer
           stop == IF nulls = {} THEN n + 1
                   ELSE CHOOSE i \in nulls : \A j \in nulls : i <= j
           base == [NoCall EXCEPT !.op = "xrEndFrame", !.session = 1,
                                  !.submitted = layers]
       IN  \E out \in {[i \in 1..n |->
                          Ipd_ForwardLayer(i, Ipd_CopiesBefore(layers, i, m_lastSeenIPD),
                                           layers[i], m_lastSeenIPD)]} :
           \E after \in {[i \in 1..n |-> IF i < stop THEN out[i].app ELSE layers[i]]} :
           lastCall' =
             IF ~typeOk
             THEN [base EXCEPT !.valid = FALSE, !.appAfter = layers,
                               !.returned = "XR_ERROR_VALIDATION_FAILURE"]
             ELSE IF nulls # {}
             THEN [base EXCEPT !.appAfter = after,
                               !.returned = "XR_ERROR_LAYER_INVALID"]
             ELSE [base EXCEPT !.appAfter = after,
                               !.forwarded = [i \in 1..n |->
                                                [ptr |-> out[i].ptr, layer |-> out[i].layer]],
                               !.dsCalled = TRUE, !.dsResult = result,
                               !.returned = result,
                               !.trace = <<"OpenXrApi::xrEndFrame">>]
    /\ UNCHANGED <<layer, instanceCreated, m_bypassApiLayer, m_compositionFrameworkFactory,
                   m_inputFrameworkFactory, wasSystemNameLogged, m_systemId, m_lastSeenIPD,
                   appViews, compositions, captureWindow, sessionData, inputBlocked>>

\* The type check at the top of xrGetSystem, xrCreateInstance and xrEndFrame.
StructTypeOk(typeOk) == typeOk

Ipd_xrGetSystem(typeOk, formFactor, result, systemId, propertiesOk) ==
    /\ layer = "ipd"
    /\ instanceCreated
    /\ LET base == [NoCall EXCEPT !.op = "xrGetSystem"]
           hmd == XR_SUCCEEDED(result) /\ formFactor = "HEAD_MOUNTED_DISPLAY"
           \* CHECK_XRCMD(xrGetSystemProperties) runs only for a new system id
           queried == hmd /\ systemId # m_systemId
       IN  IF ~StructTypeOk(typeOk)
           THEN /\ lastCall' = [base EXCEPT !.valid = FALSE,
                                            !.returned = "XR_ERROR_VALIDATION_FAILURE"]
                /\ UNCHANGED m_systemId
           ELSE IF queried /\ ~propertiesOk
           THEN /\ lastCall' = [base EXCEPT !.valid = typeOk,
                                    !.dsCalled = TRUE, !.dsResult = result,
                                    !.returned = Thrown,
                                    !.trace = <<"OpenXrApi::xrGetSystem",
                                                "OpenXrApi::xrGetSystemProperties">>]
                /\ UNCHANGED m_systemId
           ELSE /\ lastCall' = [base EXCEPT !.valid = typeOk,
                                    !.dsCalled = TRUE, !.dsResult = result,
                                    !.returned = result,
                                    !.trace = IF queried
                                              THEN <<"OpenXrApi::xrGetSystem",
                                                     "OpenXrApi::xrGetSystemProperties">>
                                              ELSE <<"OpenXrApi::xrGetSystem">>]
                /\ m_systemId' = IF hmd THEN systemId ELSE m_systemId
    /\ UNCHANGED <<layer, instanceCreated, m_bypassApiLayer, m_compositionFrameworkFactory,
                   m_inputFrameworkFactory, wasSystemNameLogged, m_lastSeenIPD,
                   appViews, compositions, captureWindow, sessionData, inputBlocked>>

Ipd_xrCreateInstance(typeOk, propertiesOk) ==
    /\ layer = "ipd"
    /\ LET base == [NoCall EXCEPT !.op = "xrCreateInstance"]
       IN  IF ~StructTypeOk(typeOk)
           THEN /\ lastCall' = [base EXCEPT !.valid = FALSE,
                                            !.returned = "XR_ERROR_VALIDATION_FAILURE"]
                /\ UNCHANGED instanceCreated
           ELSE IF m_bypassApiLayer
           THEN /\ lastCall' = [base EXCEPT !.valid = typeOk, !.dsCalled = TRUE,
                                    !.returned = "XR_SUCCESS",
                                    !.trace = <<"OpenXrApi::xrCreateInstance">>]
                /\ instanceCreated' = TRUE
           ELSE IF ~propertiesOk
           THEN /\ lastCall' = [base EXCEPT !.valid = typeOk, !.dsCalled = TRUE,
                                    !.returned = Thrown,
                                    !.trace = <<"OpenXrApi::xrCreateInstance",
                                                "OpenXrApi::xrGetInstanceProperties">>]
                /\ UNCHANGED instanceCreated
           ELSE /\ lastCall' = [base EXCEPT !.valid = typeOk, !.dsCalled = TRUE,
                                    !.returned = "XR_SUCCESS",
                                    !.trace = <<"OpenXrApi::xrCreateInstance",
                                                "OpenXrApi::xrGetInstanceProperties">>]
                /\ instanceCreated' = TRUE
    /\ UNCHANGED <<layer, m_bypassApiLayer, m_compositionFrameworkFactory,
                   m_inputFrameworkFactory, wasSystemNameLogged, m_systemId, m_lastSeenIPD,
                   appViews, compositions, captureWindow, sessionData, inputBlocked>>

Ipd_xrGetInstanceProcAddr(result) ==
    /\ layer = "ipd"
    /\ lastCall' = [NoCall EXCEPT
                       !.op = "xrGetInstanceProcAddr",
                       !.dsCalled = TRUE, !.dsResult = result, !.returned = result,
                       !.trace = IF m_bypassApiLayer
                                 THEN <<"m_xrGetInstanceProcAddr">>
                                 ELSE <<"OpenXrApi::xrGetInstanceProcAddr">>]
    /\ UNCHANGED <<layer, instanceCreated, m_bypassApiLayer, m_compositionFrameworkFactory,
                   m_inputFrameworkFactory, wasSystemNameLogged, m_systemId, m_lastSeenIPD,
                   appViews, compositions, captureWindow, sessionData, inputBlocked>>

----------------------------------------------------------------------------
(* The window-capture layer: layer.cpp *)

\* NeedsSessionData constructing a SessionData in every frame.
NeedsSessionData_Always(sd) == TRUE

\* xrEndFrame: if (!sessionData), for the object composition->getSessionData
\* returned (capture and draw layers).
NeedsSessionData(sd) == ~sd.exists

\* frameEndInfo->layers: n distinct pointers to structures of the application.
AppLayers(n) == [i \in 1..n |-> <<"app", i>>]

\* The address of the local XrCompositionLayerQuad overlay / cursor of xrEndFrame.
OverlayPtr == <<"overlay", 0>>
CursorPtr == <<"cursor", 0>>

\* Sizes of the captured window's surface.
SurfaceSizes == {"A", "B"}

\* SessionData(openxr, composition): the object after a successful construction.
Capture_NewSessionData ==
    [exists |-> TRUE,
     m_overlayProcessInfo |-> FALSE,   \* dwProcessId != 0
     m_captureWindow |-> "null",       \* "null" or the size of its frame pool
     m_lastCapturedSurface |-> FALSE,  \* the capture window holds a surface
     overlaySwapchain |-> "null"]      \* "null" or the size of the swapchain

\* m_captureWindow.reset(); overlaySwapchain.reset();
Capture_ResetResources(sd) ==
    [sd EXCEPT !.m_captureWindow = "null", !.m_lastCapturedSurface = FALSE,
               !.overlaySwapchain = "null"]

\* captureOverlayWindow, the swapchain part: (re)create the swapchain if needed,
\* then acquire, draw, release and commit.  d3dOk: the CHECK_HRCMD calls between
\* acquireImage and releaseImage succeed.
Capture_CopyToSwapchain(sd, trace, d3dOk) ==
    LET size == sd.m_captureWindow
        recreate == sd.overlaySwapchain = "null" \/ sd.overlaySwapchain # size
        sd1 == [sd EXCEPT !.overlaySwapchain = size]
        t1 == IF recreate THEN Append(trace, "createSwapchain") ELSE trace
    IN  IF d3dOk
        THEN [sd |-> sd1, ret |-> "true",
              trace |-> t1 \o <<"acquireImage", "releaseImage", "commitLastReleasedImage">>]
        ELSE [sd |-> sd1, ret |-> Thrown, trace |-> Append(t1, "acquireImage")]

\* captureOverlayWindow from the window lookup on, the overlay process running.
Capture_FromWindowLookup(sd) ==
    \* EnumWindows finds no window of the process
    { [sd |-> Capture_ResetResources(sd), ret |-> "false", trace |-> <<>>] }
    \cup
    \* the window is found; a missing capture window is constructed (or throws)
    UNION {
      IF cw = Thrown
      THEN { [sd |-> sd, ret |-> Thrown, trace |-> <<>>] }
      ELSE UNION {
             LET sd1 == [sd EXCEPT !.m_captureWindow = cw,
                                   !.m_lastCapturedSurface =
                                       (IF sd.m_captureWindow = "null" THEN FALSE
                                        ELSE sd.m_lastCapturedSurface) \/ frame]
             IN  IF ~sd1.m_lastCapturedSurface
                 THEN { [sd |-> sd1, ret |-> "false", trace |-> <<"getSurface">>] }
                 ELSE { Capture_CopyToSwapchain(sd1, <<"getSurface">>, d3dOk)
                          : d3dOk \in BOOLEAN }
             : frame \in BOOLEAN }   \* TryGetNextFrame delivers a frame
      : cw \in IF sd.m_captureWindow = "null" THEN SurfaceSizes \cup {Thrown}
               ELSE {sd.m_captureWindow} }

\* bool SessionData::captureOverlayWindow(composition): every outcome the
\* environment allows, as the SessionData after it, the value returned ("true",
\* "false" or an exception) and the swapchain and capture calls made.
Capture_captureOverlayWindow(sd0) ==
    UNION {
      IF sd1.m_overlayProcessInfo
      THEN Capture_FromWindowLookup(sd1)
      ELSE \* CreateProcess fails, or succeeds
           { [sd |-> sd1, ret |-> "false", trace |-> <<>>] }
           \cup Capture_FromWindowLookup([sd1 EXCEPT !.m_overlayProcessInfo = TRUE])
      : sd1 \in IF sd0.m_overlayProcessInfo
                THEN { sd0,   \* still running
                       \* WaitForSingleObject signals that it has exited
                       [Capture_ResetResources(sd0) EXCEPT !.m_overlayProcessInfo = FALSE] }
                ELSE { sd0 } }

\* Capture_ChainLayers putting the overlay under the application's layers.
Capture_ChainLayers_OverlayFirst(layers, hasComposition, captured) ==
    IF hasComposition /\ captured THEN <<OverlayPtr>> \o layers ELSE layers

\* xrEndFrame: the layer list handed downstream.
Capture_ChainLayers(layers, hasComposition, captured) ==
    IF hasComposition /\ captured THEN Append(layers, OverlayPtr) ELSE layers

EndFrameResults == {"XR_SUCCESS", "XR_ERROR_RUNTIME_FAILURE"}

Capture_xrEndFrame(typeOk, session, layerCount, result) ==
    /\ layer = "capture"
    /\ m_compositionFrameworkFactory
    /\ LET layers == AppLayers(layerCount)
           base == [NoCall EXCEPT !.op = "xrEndFrame", !.session = session,
                                  !.submitted = layers, !.appAfter = layers,
                                  !.composition = session \in compositions]
       IN  \/ /\ ~StructTypeOk(typeOk)
              /\ lastCall' = [base EXCEPT !.valid = FALSE,
                                          !.returned = "XR_ERROR_VALIDATION_FAILURE"]
              /\ UNCHANGED sessionData
           \/ /\ StructTypeOk(typeOk)
              /\ session \notin compositions
              /\ lastCall' = [base EXCEPT !.valid = typeOk,
                                 !.forwarded = Capture_ChainLayers(layers, FALSE, FALSE),
                                 !.dsCalled = TRUE, !.dsResult = result,
                                 !.returned = result,
                                 !.trace = <<"OpenXrApi::xrEndFrame">>]
              /\ UNCHANGED sessionData
           \/ \* the SessionData constructor throws: nothing is stored
              /\ StructTypeOk(typeOk)
              /\ session \in compositions
              /\ NeedsSessionData(sessionData[session])
              /\ lastCall' = [base EXCEPT !.valid = typeOk, !.returned = Thrown,
                                          !.trace = <<"SessionData">>]
              /\ UNCHANGED sessionData
           \/ /\ StructTypeOk(typeOk)
              /\ session \in compositions
              /\ LET first == NeedsSessionData(sessionData[session])
                     sd0 == IF first THEN Capture_NewSessionData ELSE sessionData[session]
                     made == IF first THEN <<"SessionData">> ELSE <<>>
                 IN  \E out \in Capture_captureOverlayWindow(sd0) :
                        /\ sessionData' = [sessionData EXCEPT ![session] = out.sd]
                        /\ lastCall' =
                             IF out.ret = Thrown
                             THEN [base EXCEPT !.valid = typeOk, !.returned = Thrown,
                                               !.captured = Thrown,
                                               !.trace = made \o out.trace]
                             ELSE [base EXCEPT
                                     !.valid = typeOk,
                                     !.captured = out.ret,
                                     !.forwarded = Capture_ChainLayers(layers, TRUE,
                                                                       out.ret = "true"),
                                     !.dsCalled = TRUE, !.dsResult = result,
                                     !.returned = result,
                                     !.trace = made \o out.trace
                                               \o <<"OpenXrApi::xrEndFrame">>]
    /\ UNCHANGED <<layer, instanceCreated, m_bypassApiLayer, m_compositionFrameworkFactory,
                   m_inputFrameworkFactory, wasSystemNameLogged, m_systemId, m_lastSeenIPD,
                   appViews, compositions, captureWindow, inputBlocked>>

\* xrGetSystem of the capture and draw layers (the same code in both).
Static_xrGetSystem(name, typeOk, formFactor, result, propertiesOk) ==
    /\ layer = name
    /\ instanceCreated
    /\ LET base == [NoCall EXCEPT !.op = "xrGetSystem"]
           hmd == XR_SUCCEEDED(result) /\ formFactor = "HEAD_MOUNTED_DISPLAY"
           queried == hmd /\ ~wasSystemNameLogged
       IN  IF ~StructTypeOk(typeOk)
           THEN /\ lastCall' = [base EXCEPT !.valid = FALSE,
                                            !.returned = "XR_ERROR_VALIDATION_FAILURE"]
                /\ UNCHANGED wasSystemNameLogged
           ELSE IF queried /\ ~propertiesOk
           THEN /\ lastCall' = [base EXCEPT !.valid = typeOk,
                                    !.dsCalled = TRUE, !.dsResult = result,
                                    !.returned = Thrown,
                                    !.trace = <<"OpenXrApi::xrGetSystem",
                                                "OpenXrApi::xrGetSystemProperties">>]
                /\ UNCHANGED wasSystemNameLogged
           ELSE /\ lastCall' = [base EXCEPT !.valid = typeOk,
                                    !.dsCalled = TRUE, !.dsResult = result,
                                    !.returned = result,
                                    !.trace = IF queried
                                              THEN <<"OpenXrApi::xrGetSystem",
                                                     "OpenXrApi::xrGetSystemProperties">>
                                              ELSE <<"OpenXrApi::xrGetSystem">>]
                /\ wasSystemNameLogged' = (wasSystemNameLogged \/ hmd)
    /\ UNCHANGED <<layer, instanceCreated, m_bypassApiLayer, m_compositionFrameworkFactory,
                   m_inputFrameworkFactory, m_systemId, m_lastSeenIPD,
                   appViews, compositions, captureWindow, sessionData, inputBlocked>>

Capture_xrGetSystem(typeOk, formFactor, result, propertiesOk) ==
    Static_xrGetSystem("capture", typeOk, formFactor, result, propertiesOk)

Capture_xrCreateInstance(typeOk, propertiesOk) ==
    /\ layer = "capture"
    /\ LET base == [NoCall EXCEPT !.op = "xrCreateInstance"]
       IN  IF ~StructTypeOk(typeOk)
           THEN /\ lastCall' = [base EXCEPT !.valid = FALSE,
                                            !.returned = "XR_ERROR_VALIDATION_FAILURE"]
                /\ UNCHANGED <<instanceCreated, m_compositionFrameworkFactory>>
           ELSE IF m_bypassApiLayer
           THEN /\ lastCall' = [base EXCEPT !.valid = typeOk, !.dsCalled = TRUE,
                                    !.returned = "XR_SUCCESS",
                                    !.trace = <<"OpenXrApi::xrCreateInstance">>]
                /\ instanceCreated' = TRUE
                /\ UNCHANGED m_compositionFrameworkFactory
           ELSE IF ~propertiesOk
           THEN /\ lastCall' = [base EXCEPT !.valid = typeOk, !.dsCalled = TRUE,
                                    !.returned = Thrown,
                                    !.trace = <<"OpenXrApi::xrCreateInstance",
                                                "OpenXrApi::xrGetInstanceProperties">>]
                /\ UNCHANGED <<instanceCreated, m_compositionFrameworkFactory>>
           ELSE /\ lastCall' = [base EXCEPT !.valid = typeOk, !.dsCalled = TRUE,
                                    !.returned = "XR_SUCCESS",
                                    !.trace = <<"OpenXrApi::xrCreateInstance",
                                                "OpenXrApi::xrGetInstanceProperties",
                                                "createCompositionFrameworkFactory",
                                                "killProcessByName">>]
                /\ instanceCreated' = TRUE
                /\ m_compositionFrameworkFactory' = TRUE
    /\ UNCHANGED <<layer, m_bypassApiLayer, m_inputFrameworkFactory, wasSystemNameLogged,
                   m_systemId, m_lastSeenIPD, appViews, compositions, captureWindow, sessionData,
                   inputBlocked>>

\* xrGetInstanceProcAddr: the calls made, in order.
Capture_ProcAddrCalls(bypass, compositionFactory) ==
    IF ~bypass
    THEN <<"OpenXrApi::xrGetInstanceProcAddr">>
         \o (IF compositionFactory
             THEN <<"m_compositionFrameworkFactory->xrGetInstanceProcAddr_post">>
             ELSE <<>>)
    ELSE <<"m_xrGetInstanceProcAddr">>

Capture_xrGetInstanceProcAddr(result) ==
    /\ layer = "capture"
    /\ lastCall' = [NoCall EXCEPT
                       !.op = "xrGetInstanceProcAddr",
                       !.dsCalled = TRUE, !.dsResult = result, !.returned = result,
                       !.trace = Capture_ProcAddrCalls(m_bypassApiLayer,
                                                       m_compositionFrameworkFactory)]
    /\ UNCHANGED <<layer, instanceCreated, m_bypassApiLayer, m_compositionFrameworkFactory,
                   m_inputFrameworkFactory, wasSystemNameLogged, m_systemId, m_lastSeenIPD,
                   appViews, compositions, captureWindow, sessionData, inputBlocked>>

----------------------------------------------------------------------------
(* CaptureWindowWinRT: capture.h, lines 57-110 *)

\* Frames the capture session delivers to one capture window.
MaxFrames == 6

\* numberOfBuffers of Direct3D11CaptureFramePool::CreateFreeThreaded
FramePoolBuffers == 2

\* No object constructed.  Frames are numbered from 1 in the order the capture
\* session produces them; 0 is a null frame or surface.
NoCaptureWindow ==
    [constructed |-> FALSE,
     pending |-> <<>>,               \* frames in the pool TryGetNextFrame has not returned
     produced |-> 0,                 \* frames the capture session has written
     m_lastCapturedFrame |-> {},     \* the frames the object keeps a reference to
     m_lastCapturedSurface |-> 0,    \* the frame whose surface the member holds
     \* what the calls so far did
     lastFrame |-> 0,                \* the last frame TryGetNextFrame returned
     dequeued |-> 0,                 \* how many frames TryGetNextFrame returned
     dropped |-> 0,                  \* how many of them were lost to an exception
     returnedNonNull |-> FALSE,      \* getSurface has returned a surface
     \* what the last getSurface did
     lastDequeued |-> 0,             \* the frame its TryGetNextFrame returned
     returnedSurface |-> 0]          \* the frame whose surface it returned

\* m_lastCapturedFrame = frame keeping the reference to the previous frame too.
WinRT_StoreFrame_KeepPrevious(held, frame) == held \cup {frame}

\* m_lastCapturedFrame = frame: the reference to the previous frame is released.
WinRT_StoreFrame(held, frame) == {frame}

\* Buffers of the pool neither waiting in it nor referenced by the object.
WinRT_FreeBuffers(cw) ==
    FramePoolBuffers - Len(cw.pending) - Cardinality(cw.m_lastCapturedFrame)

\* CaptureWindowWinRT(device, window): throws, or leaves a started session on a
\* pool of FramePoolBuffers buffers.
WinRT_Construct(ok) ==
    /\ layer = "winrt"
    /\ ~captureWindow.constructed
    /\ captureWindow' = IF ok THEN [NoCaptureWindow EXCEPT !.constructed = TRUE]
                        ELSE captureWindow
    /\ lastCall' = [NoCall EXCEPT !.op = "CaptureWindowWinRT",
                                  !.returned = IF ok THEN "constructed" ELSE Thrown]
    /\ UNCHANGED <<layer, instanceCreated, m_bypassApiLayer, m_compositionFrameworkFactory,
                   m_inputFrameworkFactory, wasSystemNameLogged, m_systemId, m_lastSeenIPD,
                   appViews, compositions, sessionData, inputBlocked>>

\* ~CaptureWindowWinRT(): the session and the pool are closed.
WinRT_Destroy ==
    /\ layer = "winrt"
    /\ captureWindow.constructed
    /\ captureWindow' = NoCaptureWindow
    /\ lastCall' = [NoCall EXCEPT !.op = "~CaptureWindowWinRT"]
    /\ UNCHANGED <<layer, instanceCreated, m_bypassApiLayer, m_compositionFrameworkFactory,
                   m_inputFrameworkFactory, wasSystemNameLogged, m_systemId, m_lastSeenIPD,
                   appViews, compositions, sessionData, inputBlocked>>

\* The started capture session writes the window's next frame into a free
\* buffer of the pool.
WinRT_FrameArrives ==
    /\ layer = "winrt"
    /\ captureWindow.constructed
    /\ captureWindow.produced < MaxFrames
    /\ WinRT_FreeBuffers(captureWindow) > 0
    /\ captureWindow' = [captureWindow EXCEPT
                           !.produced = @ + 1,
                           !.pending = Append(@, captureWindow.produced + 1)]
    /\ UNCHANGED <<layer, instanceCreated, m_bypassApiLayer, m_compositionFrameworkFactory,
                   m_inputFrameworkFactory, wasSystemNameLogged, m_systemId, m_lastSeenIPD,
                   appViews, compositions, sessionData, inputBlocked, lastCall>>

\* ID3D11Texture2D* getSurface().  interfaceOk: access->GetInterface succeeds.
WinRT_getSurface(interfaceOk) ==
    /\ layer = "winrt"
    /\ captureWindow.constructed
    /\ LET cw == captureWindow
           base == [NoCall EXCEPT !.op = "getSurface"]
       IN  IF cw.pending = <<>>
           THEN \* TryGetNextFrame returns null
                /\ captureWindow' = [cw EXCEPT
                                       !.lastDequeued = 0,
                                       !.returnedSurface = cw.m_lastCapturedSurface,
                                       !.returnedNonNull = @ \/ cw.m_lastCapturedSurface # 0]
                /\ lastCall' = [base EXCEPT
                                  !.trace = <<"TryGetNextFrame">>,
                                  !.returned = IF cw.m_lastCapturedSurface = 0 THEN "null"
                                               ELSE "surface"]
           ELSE LET frame == Head(cw.pending)
                    taken == [cw EXCEPT !.pending = Tail(@), !.lastFrame = frame,
                                        !.dequeued = @ + 1, !.lastDequeued = frame]
                IN  IF ~interfaceOk
                    THEN \* CHECK_HRCMD throws; the local frame is released
                         /\ captureWindow' = [taken EXCEPT !.dropped = @ + 1,
                                                           !.returnedSurface = 0]
                         /\ lastCall' = [base EXCEPT
                                           !.trace = <<"TryGetNextFrame", "GetInterface">>,
                                           !.returned = Thrown]
                    ELSE /\ captureWindow' =
                              [taken EXCEPT
                                 !.m_lastCapturedFrame = WinRT_StoreFrame(@, frame),
                                 !.m_lastCapturedSurface = frame,
                                 !.returnedSurface = frame,
                                 !.returnedNonNull = TRUE]
                         /\ lastCall' = [base EXCEPT
                                           !.trace = <<"TryGetNextFrame", "GetInterface">>,
                                           !.returned = "surface"]
    /\ UNCHANGED <<layer, instanceCreated, m_bypassApiLayer, m_compositionFrameworkFactory,
                   m_inputFrameworkFactory, wasSystemNameLogged, m_systemId, m_lastSeenIPD,
                   appViews, compositions, sessionData, inputBlocked>>

----------------------------------------------------------------------------
(* The drawn-overlay layer: capture.h, class OpenXrLayer at lines 527-917 *)

\* overlaySwapchainInfo.width and .height
OverlayExtent == 512

\* The hit area is the overlay's extent plus this many pixels.
CursorHitMargin == 400

\* rect1 and rect2 keep this distance from the edges and from the middle.
RectInset == 10

\* std::size(Colors)
NumColors == 6

\* Where the left controller aims: no valid pose, or the point of the overlay's
\* plane it hits, in pixels from the overlay's top-left corner.
NoAim == [valid |-> FALSE, x |-> 0, y |-> 0]
Aims == { NoAim,
          [valid |-> TRUE, x |-> 100, y |-> 100],     \* inside rect1
          [valid |-> TRUE, x |-> -100, y |-> 100],    \* beside the overlay, within 200 px
          [valid |-> TRUE, x |-> -300, y |-> 100] }   \* further away

\* SessionData(openxr, composition): the object after a successful construction.
Draw_NewSessionData ==
    [exists |-> TRUE, overlayVisible |-> TRUE, wasTriggeredPressed |-> FALSE,
     wasOptionButtonPressed |-> FALSE, colorIndex1 |-> 0, colorIndex2 |-> 1]

\* Draw_HitExtent without the margin around the overlay.
Draw_HitExtent_NoMargin(extent) == extent

\* The extent, in pixels, of the area handed to hitTest.
Draw_HitExtent(extent) == extent + CursorHitMargin

\* general::hitTest against a quad of `size` pixels centred on the overlay.
Draw_hitTest(aim, extent, size) ==
    /\ 2 * aim.x - extent > -size /\ 2 * aim.x - extent < size
    /\ 2 * aim.y - extent > -size /\ 2 * aim.y - extent < size

\* cursorPos inside rect1 / rect2
Draw_InRect1(aim) ==
    /\ aim.x > RectInset /\ aim.x < OverlayExtent \div 2 - RectInset
    /\ aim.y > RectInset /\ aim.y < OverlayExtent - RectInset
Draw_InRect2(aim) ==
    /\ aim.x > OverlayExtent \div 2 + RectInset /\ aim.x < OverlayExtent - RectInset
    /\ aim.y > RectInset /\ aim.y < OverlayExtent - RectInset

\* xrEndFrame: the option button toggles the overlay on a rising edge.
Draw_Toggle(sd, menu) ==
    [sd EXCEPT !.wasOptionButtonPressed = menu,
               !.overlayVisible = IF menu /\ ~sd.wasOptionButtonPressed
                                  THEN ~sd.overlayVisible ELSE sd.overlayVisible]

\* xrEndFrame: the cursor is drawn in this frame.
Draw_CursorShown(sd, aim) ==
    /\ sd.overlayVisible
    /\ aim.valid
    /\ Draw_hitTest(aim, OverlayExtent, Draw_HitExtent(OverlayExtent))

\* xrEndFrame: the cursor part, for a visible overlay.  The SessionData after it.
Draw_Cursor(sd, aim, trigger) ==
    IF ~aim.valid THEN sd
    ELSE IF ~Draw_CursorShown(sd, aim) THEN [sd EXCEPT !.wasTriggeredPressed = FALSE]
    ELSE LET click == trigger /\ ~sd.wasTriggeredPressed
         IN  [sd EXCEPT
                !.wasTriggeredPressed = trigger,
                !.colorIndex1 = IF click /\ Draw_InRect1(aim)
                                THEN (sd.colorIndex1 + 1) % NumColors ELSE sd.colorIndex1,
                !.colorIndex2 = IF click /\ Draw_InRect2(aim)
                                THEN (sd.colorIndex2 + 1) % NumColors ELSE sd.colorIndex2]

\* xrEndFrame: the layers pushed after the application's.
Draw_Appended(sd, aim) ==
    (IF sd.overlayVisible THEN <<OverlayPtr>> ELSE <<>>)
    \o (IF Draw_CursorShown(sd, aim) THEN <<CursorPtr>> ELSE <<>>)

\* Draw_NeedBlock set as soon as the aim pose is valid, hit or not.
Draw_NeedBlock_AnyValidAim(sd, aim) == sd.overlayVisible /\ aim.valid

\* xrEndFrame: needBlockApplicationInput at the end of the frame.
Draw_NeedBlock(sd, aim) == Draw_CursorShown(sd, aim)

BlockCall(flag) == IF flag THEN "blockApplicationInput(true)"
                   ELSE "blockApplicationInput(false)"

\* xrEndFrame with a composition framework, from the overlay's drawing to the
\* downstream call: sd1 is the SessionData after the option button, sd2 after
\* the cursor handling.
Draw_Submit(base, typeOk, session, layers, result, sd1, sd2, aim, made) ==
    LET need == Draw_NeedBlock(sd1, aim)
        drawn == IF sd1.overlayVisible
                 THEN <<"acquireImage", "releaseImage", "commitLastReleasedImage">>
                 ELSE <<>>
    IN  /\ sessionData' = [sessionData EXCEPT ![session] = sd2]
        /\ inputBlocked' = [inputBlocked EXCEPT ![session] = need]
        /\ lastCall' = [base EXCEPT
                           !.valid = typeOk,
                           !.overlayVisible = sd1.overlayVisible,
                           !.aim = aim,
                           !.forwarded = layers \o Draw_Appended(sd1, aim),
                           !.dsCalled = TRUE, !.dsResult = result,
                           !.returned = result,
                           !.trace = made \o drawn
                                     \o <<BlockCall(need), "OpenXrApi::xrEndFrame">>]

Draw_xrEndFrame(typeOk, session, layerCount, result) ==
    /\ layer = "draw"
    /\ m_compositionFrameworkFactory
    /\ m_inputFrameworkFactory
    /\ LET layers == AppLayers(layerCount)
           base == [NoCall EXCEPT !.op = "xrEndFrame", !.session = session,
                                  !.submitted = layers, !.appAfter = layers,
                                  !.composition = session \in compositions]
       IN  \/ /\ ~StructTypeOk(typeOk)
              /\ lastCall' = [base EXCEPT !.valid = FALSE,
                                          !.returned = "XR_ERROR_VALIDATION_FAILURE"]
              /\ UNCHANGED <<sessionData, inputBlocked>>
           \/ /\ StructTypeOk(typeOk)
              /\ session \notin compositions
              /\ lastCall' = [base EXCEPT !.valid = typeOk,
                                 !.forwarded = layers,
                                 !.dsCalled = TRUE, !.dsResult = result,
                                 !.returned = result,
                                 !.trace = <<BlockCall(FALSE), "OpenXrApi::xrEndFrame">>]
              /\ inputBlocked' = [inputBlocked EXCEPT ![session] = FALSE]
              /\ UNCHANGED sessionData
           \/ \* the SessionData constructor throws: nothing is stored
              /\ StructTypeOk(typeOk)
              /\ session \in compositions
              /\ NeedsSessionData(sessionData[session])
              /\ lastCall' = [base EXCEPT !.valid = typeOk, !.returned = Thrown,
                                          !.trace = <<"SessionData">>]
              /\ UNCHANGED <<sessionData, inputBlocked>>
           \/ /\ StructTypeOk(typeOk)
              /\ session \in compositions
              /\ LET first == NeedsSessionData(sessionData[session])
                     sd0 == IF first THEN Draw_NewSessionData ELSE sessionData[session]
                     made == IF first THEN <<"SessionData">> ELSE <<>>
                 IN  \E menu \in BOOLEAN :
                       LET sd1 == Draw_Toggle(sd0, menu)
                       IN  IF ~sd1.overlayVisible
                           THEN Draw_Submit(base, typeOk, session, layers, result, sd1, sd1,
                                            NoAim, made)
                           ELSE \/ \* CHECK_HRCMD throws between acquireImage and
                                   \* releaseImage
                                   /\ sessionData' = [sessionData EXCEPT ![session] = sd1]
                                   /\ lastCall' = [base EXCEPT
                                                      !.valid = typeOk,
                                                      !.returned = Thrown,
                                                      !.overlayVisible = TRUE,
                                                      !.trace = made \o <<"acquireImage">>]
                                   /\ UNCHANGED inputBlocked
                                \/ \E aim \in Aims, trigger \in BOOLEAN :
                                      Draw_Submit(base, typeOk, session, layers, result,
                                                  sd1, Draw_Cursor(sd1, aim, trigger),
                                                  aim, made)
    /\ UNCHANGED <<layer, instanceCreated, m_bypassApiLayer, m_compositionFrameworkFactory,
                   m_inputFrameworkFactory, wasSystemNameLogged, m_systemId, m_lastSeenIPD,
                   appViews, compositions, captureWindow>>

Draw_xrGetSystem(typeOk, formFactor, result, propertiesOk) ==
    Static_xrGetSystem("draw", typeOk, formFactor, result, propertiesOk)

Draw_xrCreateInstance(typeOk, propertiesOk) ==
    /\ layer = "draw"
    /\ LET base == [NoCall EXCEPT !.op = "xrCreateInstance"]
       IN  IF ~StructTypeOk(typeOk)
           THEN /\ lastCall' = [base EXCEPT !.valid = FALSE,
                                            !.returned = "XR_ERROR_VALIDATION_FAILURE"]
                /\ UNCHANGED <<instanceCreated, m_compositionFrameworkFactory,
                               m_inputFrameworkFactory>>
           ELSE IF m_bypassApiLayer
           THEN /\ lastCall' = [base EXCEPT !.valid = typeOk, !.dsCalled = TRUE,
                                    !.returned = "XR_SUCCESS",
                                    !.trace = <<"OpenXrApi::xrCreateInstance">>]
                /\ instanceCreated' = TRUE
                /\ UNCHANGED <<m_compositionFrameworkFactory, m_inputFrameworkFactory>>
           ELSE IF ~propertiesOk
           THEN /\ lastCall' = [base EXCEPT !.valid = typeOk, !.dsCalled = TRUE,
                                    !.returned = Thrown,
                                    !.trace = <<"OpenXrApi::xrCreateInstance",
                                                "OpenXrApi::xrGetInstanceProperties">>]
                /\ UNCHANGED <<instanceCreated, m_compositionFrameworkFactory,
                               m_inputFrameworkFactory>>
           ELSE /\ lastCall' = [base EXCEPT !.valid = typeOk, !.dsCalled = TRUE,
                                    !.returned = "XR_SUCCESS",
                                    !.trace = <<"OpenXrApi::xrCreateInstance",
                                                "OpenXrApi::xrGetInstanceProperties",
                                                "createCompositionFrameworkFactory",
                                                "createInputFrameworkFactory",
                                                "CoInitializeEx">>]
                /\ instanceCreated' = TRUE
                /\ m_compositionFrameworkFactory' = TRUE
                /\ m_inputFrameworkFactory' = TRUE
    /\ UNCHANGED <<layer, m_bypassApiLayer, wasSystemNameLogged,
                   m_systemId, m_lastSeenIPD, appViews, compositions, captureWindow, sessionData,
                   inputBlocked>>

\* xrGetInstanceProcAddr: the calls made, in order.
Draw_ProcAddrCalls(bypass, compositionFactory, inputFactory) ==
    IF ~bypass
    THEN <<"OpenXrApi::xrGetInstanceProcAddr">>
         \o (IF compositionFactory
             THEN <<"m_compositionFrameworkFactory->xrGetInstanceProcAddr_post">>
             ELSE <<>>)
         \o (IF inputFactory
             THEN <<"m_inputFrameworkFactory->xrGetInstanceProcAddr_post">>
             ELSE <<>>)
    ELSE <<"m_xrGetInstanceProcAddr">>

Draw_xrGetInstanceProcAddr(result) ==
    /\ layer = "draw"
    /\ lastCall' = [NoCall EXCEPT
                       !.op = "xrGetInstanceProcAddr",
                       !.dsCalled = TRUE, !.dsResult = result, !.returned = result,
                       !.trace = Draw_ProcAddrCalls(m_bypassApiLayer,
                                                    m_compositionFrameworkFactory,
                                                    m_inputFrameworkFactory)]
    /\ UNCHANGED <<layer, instanceCreated, m_bypassApiLayer, m_compositionFrameworkFactory,
                   m_inputFrameworkFactory, wasSystemNameLogged, m_systemId, m_lastSeenIPD,
                   appViews, compositions, captureWindow, sessionData, inputBlocked>>

----------------------------------------------------------------------------
(* The state machine *)

InitLayer(name) ==
    /\ layer = name
    /\ instanceCreated = FALSE
    /\ m_bypassApiLayer = FALSE
    /\ m_compositionFrameworkFactory = FALSE
    /\ m_inputFrameworkFactory = FALSE
    /\ wasSystemNameLogged = FALSE
    /\ m_systemId = XR_NULL_SYSTEM_ID
    /\ m_lastSeenIPD = NoIPD
    /\ appViews = <<Zero3, Zero3>>
    \* session 1 has a composition framework; session 2 may have none (a session
    \* on a graphics API the framework does not handle)
    /\ compositions \in IF name \in {"ipd", "winrt"} THEN {{}}
                       ELSE IF name = "draw" THEN {{1}}
                       ELSE {{1}, {1, 2}}
    /\ sessionData = [s \in Sessions |-> NoSessionData]
    /\ inputBlocked = [s \in Sessions |-> FALSE]
    /\ captureWindow = NoCaptureWindow
    /\ lastCall = NoCall

\* The xrLocateViews calls tried: every input of a well-typed call, and each
\* mistyped call with one choice of the inputs it never reads.
LocateViewsCalls ==
    [infoTypeOk : {TRUE}, stateTypeOk : {TRUE}, result : DownstreamResults,
     capacity : Capacities, config : ViewConfigs, key : BOOLEAN, rt : RuntimeViewPairs]
    \cup
    [infoTypeOk : BOOLEAN, stateTypeOk : BOOLEAN, result : {"XR_SUCCESS"},
     capacity : {StereoViewCount}, config : {"PRIMARY_STEREO"}, key : {FALSE},
     rt : {<< <<-180, -240, 0>>, <<180, 240, 0>> >>}]

\* The xrEndFrame calls tried on the capture and draw layers: every input of a
\* well-typed call, and the mistyped call with one choice of the inputs it never
\* reads.
EndFrameCalls ==
    [typeOk : {TRUE}, session : Sessions, layerCount : 0..MaxLayers,
     result : EndFrameResults]
    \cup
    [typeOk : {FALSE}, session : Sessions, layerCount : {1}, result : {"XR_SUCCESS"}]

NextCapture ==
    \/ \E typeOk, propertiesOk \in BOOLEAN : Capture_xrCreateInstance(typeOk, propertiesOk)
    \/ \E result \in DownstreamResults : Capture_xrGetInstanceProcAddr(result)
    \/ \E typeOk, propertiesOk \in BOOLEAN, formFactor \in FormFactors,
          result \in DownstreamResults :
          Capture_xrGetSystem(typeOk, formFactor, result, propertiesOk)
    \/ \E c \in EndFrameCalls :
          Capture_xrEndFrame(c.typeOk, c.session, c.layerCount, c.result)

NextIpd ==
    \/ \E typeOk, propertiesOk \in BOOLEAN : Ipd_xrCreateInstance(typeOk, propertiesOk)
    \/ \E result \in DownstreamResults : Ipd_xrGetInstanceProcAddr(result)
    \/ \E typeOk, propertiesOk \in BOOLEAN, formFactor \in FormFactors,
          result \in DownstreamResults, systemId \in SystemIds :
          Ipd_xrGetSystem(typeOk, formFactor, result, systemId, propertiesOk)
    \/ \E c \in LocateViewsCalls :
          Ipd_xrLocateViews(c.infoTypeOk, c.stateTypeOk, c.result, c.capacity, c.config,
                            c.key, c.rt)
    \/ \E result \in EndFrameResults,
          layers \in SeqsUpTo(Ipd_LayerChoices(appViews), MaxLayers) :
          Ipd_xrEndFrame(TRUE, layers, result)
    \/ \E layers \in {<<QuadLayer, ProjLayer(appViews)>>, <<QuadLayer, NullLayer>>} :
          Ipd_xrEndFrame(FALSE, layers, "XR_SUCCESS")

NextDraw ==
    \/ \E typeOk, propertiesOk \in BOOLEAN : Draw_xrCreateInstance(typeOk, propertiesOk)
    \/ \E result \in DownstreamResults : Draw_xrGetInstanceProcAddr(result)
    \/ \E typeOk, propertiesOk \in BOOLEAN, formFactor \in FormFactors,
          result \in DownstreamResults :
          Draw_xrGetSystem(typeOk, formFactor, result, propertiesOk)
    \/ \E c \in EndFrameCalls :
          Draw_xrEndFrame(c.typeOk, c.session, c.layerCount, c.result)

NextWinRT ==
    \/ \E ok \in BOOLEAN : WinRT_Construct(ok)
    \/ WinRT_Destroy
    \/ WinRT_FrameArrives
    \/ \E interfaceOk \in BOOLEAN : WinRT_getSurface(interfaceOk)

Init == \E name \in {"capture", "ipd", "draw", "winrt"} : InitLayer(name)

Next == NextCapture \/ NextIpd \/ NextDraw \/ NextWinRT

\* Any of the three layers.
Spec == Init /\ [][Next]_vars

\* One layer at a time.
SpecCapture == InitLayer("capture") /\ [][NextCapture]_vars
SpecIpd == InitLayer("ipd") /\ [][NextIpd]_vars
SpecDraw == InitLayer("draw") /\ [][NextDraw]_vars
SpecWinRT == InitLayer("winrt") /\ [][NextWinRT]_vars

----------------------------------------------------------------------------
(* The claims *)

Range(f) == {f[i] : i \in DOMAIN f}

IsEndFrame(name) ==
    layer = name /\ lastCall.op = "xrEndFrame" /\ lastCall.dsCalled

\* C1: window-capture layer, xrEndFrame.  The layer list forwarded downstream is
\* the application's layers in their order, followed by exactly one overlay quad
\* if the session has a composition framework and captureOverlayWindow returned
\* true in this call, and by nothing otherwise; the forwarded count is the
\* application's count or that count plus one.  A well-typed call that does not
\* throw is forwarded.
C1_CaptureForwardsLayersPlusOverlay ==
    /\ (layer = "capture" /\ lastCall.op = "xrEndFrame" /\ lastCall.valid
          /\ lastCall.returned # Thrown) => lastCall.dsCalled
    /\ IsEndFrame("capture") =>
         /\ lastCall.forwarded =
              lastCall.submitted
              \o (IF lastCall.session \in compositions /\ lastCall.captured = "true"
                  THEN <<OverlayPtr>> ELSE <<>>)
         /\ Len(lastCall.forwarded) \in {Len(lastCall.submitted),
                                         Len(lastCall.submitted) + 1}

\* A frame of two application layers to which the overlay was appended.
C1_Witness ==
    /\ IsEndFrame("capture")
    /\ lastCall.captured = "true"
    /\ Len(lastCall.submitted) >= 2

\* The preconditions of C2: a well-typed, successful stereo xrLocateViews with
\* room for the views and the deactivate key released.
LocatedStereo ==
    /\ layer = "ipd"
    /\ lastCall.op = "xrLocateViews"
    /\ lastCall.dsCalled
    /\ XR_SUCCEEDED(lastCall.dsResult)
    /\ lastCall.capacity # 0
    /\ lastCall.viewConfig = "PRIMARY_STEREO"

\* C2: IPD-override layer, xrLocateViews.  After a successful stereo call with a
\* non-zero capacity and the deactivate key released, the two positions returned
\* are exactly IPDOverride apart and m_lastSeenIPD holds the distance between
\* the positions the runtime reported.
C2_ViewsAreIPDOverrideApart ==
    (LocatedStereo /\ ~lastCall.keyPressed) =>
        /\ Distance(lastCall.returnedViews[1], lastCall.returnedViews[2]) = IPDOverride
        /\ m_lastSeenIPD = SomeIPD(Distance(lastCall.runtimeViews[1],
                                            lastCall.runtimeViews[2]))

\* A submitted layer that xrEndFrame patches.
IsStereoProjection(L) ==
    ~L.null /\ L.type = "XR_TYPE_COMPOSITION_LAYER_PROJECTION" /\ L.viewCount = 2

\* C3: IPD-override layer, xrEndFrame.  While m_lastSeenIPD holds a value, the
\* copy forwarded for every submitted projection layer with exactly 2 views has
\* its two view positions exactly m_lastSeenIPD apart.
C3_ForwardedViewsAreLastSeenIPDApart ==
    (IsEndFrame("ipd") /\ m_lastSeenIPD.has) =>
        \A i \in 1..Len(lastCall.submitted) :
            IsStereoProjection(lastCall.submitted[i]) =>
                Distance(lastCall.forwarded[i].layer.views[1],
                         lastCall.forwarded[i].layer.views[2]) = m_lastSeenIPD.value

\* C4: IPD-override layer, xrEndFrame.  Downstream receives as many layers as
\* submitted, in the same order; a layer that is not a projection layer with
\* exactly 2 views, and every layer while m_lastSeenIPD is empty, is forwarded
\* as the application's own pointer; the application's structures are never
\* written.
C4_SameLayersOwnPointersNoWrites ==
    /\ (layer = "ipd" /\ lastCall.op = "xrEndFrame") =>
          lastCall.appAfter = lastCall.submitted
    /\ IsEndFrame("ipd") =>
         /\ Len(lastCall.forwarded) = Len(lastCall.submitted)
         /\ \A i \in 1..Len(lastCall.submitted) :
              /\ [lastCall.forwarded[i].layer EXCEPT
                    !.views = lastCall.submitted[i].views] = lastCall.submitted[i]
              /\ (~IsStereoProjection(lastCall.submitted[i]) \/ ~m_lastSeenIPD.has)
                    => /\ lastCall.forwarded[i].ptr = <<"app", i>>
                       /\ lastCall.forwarded[i].layer = lastCall.submitted[i]

\* A frame in which one layer was copied and patched and another forwarded as is.
C4_Witness ==
    /\ IsEndFrame("ipd")
    /\ \E i, j \in 1..Len(lastCall.forwarded) :
          /\ lastCall.forwarded[i].ptr[1] = "projAllocator"
          /\ lastCall.forwarded[i].layer.views # lastCall.submitted[i].views
          /\ lastCall.forwarded[j].ptr = <<"app", j>>

\* The aim hits the overlay's area extended by 400 pixels (200 on each side).
AimHitsExtendedOverlay(aim) ==
    /\ aim.valid
    /\ 2 * aim.x > -CursorHitMargin /\ 2 * aim.x < 2 * OverlayExtent + CursorHitMargin
    /\ 2 * aim.y > -CursorHitMargin /\ 2 * aim.y < 2 * OverlayExtent + CursorHitMargin

\* C5: drawn-overlay layer, xrEndFrame with a composition framework.  The list
\* forwarded is the application's layers in their order, then the overlay quad
\* exactly when overlayVisible is true, then the cursor quad exactly when the
\* overlay is visible, the aim pose is valid and the aim hits the overlay area
\* extended by 400 pixels; so the cursor never goes without the overlay and
\* always comes after it.
C5_DrawForwardsOverlayThenCursor ==
    (IsEndFrame("draw") /\ lastCall.session \in compositions) =>
        LET visible == sessionData[lastCall.session].overlayVisible
            cursor == visible /\ AimHitsExtendedOverlay(lastCall.aim)
        IN  lastCall.forwarded =
                lastCall.submitted
                \o (IF visible THEN <<OverlayPtr>> ELSE <<>>)
                \o (IF cursor THEN <<CursorPtr>> ELSE <<>>)

\* A frame with the aim beside the overlay but within the margin: both quads follow
\* the application's layer.
C5_Witness ==
    /\ IsEndFrame("draw")
    /\ lastCall.aim.valid /\ lastCall.aim.x < 0
    /\ Len(lastCall.submitted) >= 1
    /\ lastCall.forwarded = lastCall.submitted \o <<OverlayPtr, CursorPtr>>

\* C6: drawn-overlay layer.  Every xrEndFrame that reaches the downstream call
\* calls blockApplicationInput just before it, once, with true exactly when the
\* cursor layer was appended in this frame; so after a frame in which the
\* overlay is hidden, the aim pose invalid or the aim off the overlay, the
\* application's input is unblocked.
C6_InputBlockedOnlyWithCursor ==
    IsEndFrame("draw") =>
        LET cursor == CursorPtr \in Range(lastCall.forwarded)
            n == Len(lastCall.trace)
            visible == lastCall.session \in compositions
                       /\ sessionData[lastCall.session].overlayVisible
        IN  /\ n >= 2
            /\ lastCall.trace[n] = "OpenXrApi::xrEndFrame"
            /\ lastCall.trace[n - 1] = BlockCall(cursor)
            /\ \A k \in 1..(n - 2) :
                  lastCall.trace[k] \notin {BlockCall(TRUE), BlockCall(FALSE)}
            /\ inputBlocked[lastCall.session] = cursor
            /\ (~visible \/ ~AimHitsExtendedOverlay(lastCall.aim))
                  => ~inputBlocked[lastCall.session]

\* A frame with the overlay visible and a valid aim that misses it: input is
\* unblocked.
C6_Witness ==
    /\ IsEndFrame("draw")
    /\ lastCall.overlayVisible
    /\ lastCall.aim.valid
    /\ ~AimHitsExtendedOverlay(lastCall.aim)
    /\ ~inputBlocked[lastCall.session]
    /\ sessionData[lastCall.session].colorIndex1 # 0

\* C7: a wrongly typed input structure makes xrCreateInstance, xrGetSystem,
\* xrEndFrame and xrLocateViews return XR_ERROR_VALIDATION_FAILURE without
\* calling anything downstream and without changing any state of the layer.
C7_MistypedCallIsRejectedUntouched ==
    [][ (~lastCall'.valid) =>
            /\ lastCall'.op \in {"xrCreateInstance", "xrGetSystem", "xrEndFrame",
                                 "xrLocateViews"}
            /\ lastCall'.returned = "XR_ERROR_VALIDATION_FAILURE"
            /\ ~lastCall'.dsCalled
            /\ lastCall'.trace = <<>>
            /\ lastCall'.forwarded = <<>>
            /\ UNCHANGED layerState
            /\ UNCHANGED appViews ]_vars

\* An xrLocateViews with a mistyped viewState, rejected while m_lastSeenIPD holds
\* a value.
C7_Witness ==
    /\ lastCall.op = "xrLocateViews"
    /\ ~lastCall.valid
    /\ lastCall.returned = "XR_ERROR_VALIDATION_FAILURE"
    /\ m_lastSeenIPD.has

\* C8: whenever xrGetSystem, xrLocateViews or xrEndFrame reaches the downstream
\* call, the XrResult returned to the application is the XrResult the
\* downstream call returned.
C8_DownstreamResultIsReturned ==
    (lastCall.op \in {"xrGetSystem", "xrLocateViews", "xrEndFrame"} /\ lastCall.dsCalled)
        => lastCall.returned = lastCall.dsResult

\* C10: IPD-override deactivation.  A successful stereo xrLocateViews with a
\* non-zero capacity and the deactivate key pressed returns the views as the
\* runtime wrote them and clears m_lastSeenIPD; while it is empty every
\* xrEndFrame forwards all layers by their original pointers; and it stays
\* empty until such an xrLocateViews runs with the key released.
C10_DeactivationHoldsUntilReleased ==
    [][ /\ (LocatedStereo /\ lastCall.keyPressed)' =>
              (/\ lastCall.returnedViews = lastCall.runtimeViews
               /\ ~m_lastSeenIPD.has)'
        /\ (IsEndFrame("ipd") /\ ~m_lastSeenIPD.has)' =>
              (\A i \in 1..Len(lastCall.submitted) :
                   /\ lastCall.forwarded[i].ptr = <<"app", i>>
                   /\ lastCall.forwarded[i].layer = lastCall.submitted[i])'
        /\ (~m_lastSeenIPD.has /\ m_lastSeenIPD'.has) =>
              (LocatedStereo /\ ~lastCall.keyPressed)' ]_vars

\* A frame with a stereo projection layer submitted after the key was pressed:
\* the application holds the runtime's own views (60 mm apart) and m_lastSeenIPD
\* is empty.
C10_Witness ==
    /\ IsEndFrame("ipd")
    /\ ~m_lastSeenIPD.has
    /\ ~IsNaN(appViews[1])
    /\ Distance(appViews[1], appViews[2]) # 0
    /\ \E i \in 1..Len(lastCall.submitted) :
          /\ IsStereoProjection(lastCall.submitted[i])
          /\ lastCall.submitted[i].views = appViews

\* An xrLocateViews that reached the downstream call outside the override's
\* case: the downstream call failed, or viewCapacityInput is 0, or the view
\* configuration is not PRIMARY_STEREO.
LocatedOutsideCase ==
    /\ layer = "ipd"
    /\ lastCall.op = "xrLocateViews"
    /\ lastCall.dsCalled
    /\ \/ ~XR_SUCCEEDED(lastCall.dsResult)
       \/ lastCall.capacity = 0
       \/ lastCall.viewConfig # "PRIMARY_STEREO"

\* C11: IPD-override layer, xrLocateViews.  When the downstream call fails, or
\* viewCapacityInput is 0, or the view configuration type is not
\* PRIMARY_STEREO, the views returned are the views as the runtime wrote them,
\* the stereo views the application holds are not written, and m_lastSeenIPD
\* keeps the value it had before the call.
C11_LocateOutsideCaseChangesNothing ==
    [][ LocatedOutsideCase' =>
            /\ lastCall'.returnedViews = lastCall'.runtimeViews
            /\ lastCall'.returned = lastCall'.dsResult
            /\ UNCHANGED m_lastSeenIPD
            /\ UNCHANGED appViews ]_vars

\* A successful mono xrLocateViews made while m_lastSeenIPD holds a value.
C11_Witness ==
    /\ LocatedOutsideCase
    /\ XR_SUCCEEDED(lastCall.dsResult)
    /\ lastCall.capacity # 0
    /\ Len(lastCall.returnedViews) = 1
    /\ m_lastSeenIPD.has

\* An xrEndFrame of the IPD-override layer with a null pointer among its layers.
EndFrameWithNullLayer ==
    /\ layer = "ipd"
    /\ lastCall.op = "xrEndFrame"
    /\ \E i \in 1..Len(lastCall.submitted) : lastCall.submitted[i].null

\* What C12 says of such a call: XR_ERROR_LAYER_INVALID, nothing forwarded.
RejectedAsLayerInvalid ==
    /\ lastCall.returned = "XR_ERROR_LAYER_INVALID"
    /\ ~lastCall.dsCalled
    /\ lastCall.forwarded = <<>>
    /\ lastCall.trace = <<>>

\* C12 as stated: IPD-override layer, xrEndFrame.  If any layers[i] with
\* i < layerCount is a null pointer, the call returns XR_ERROR_LAYER_INVALID,
\* the downstream xrEndFrame is not called and m_lastSeenIPD is unchanged.
C12_NullLayerIsLayerInvalid ==
    [][ EndFrameWithNullLayer' =>
            (RejectedAsLayerInvalid' /\ UNCHANGED m_lastSeenIPD) ]_vars

\* C12, amended: the same for an xrEndFrame whose frameEndInfo has the type
\* XR_TYPE_FRAME_END_INFO; a mistyped frameEndInfo is rejected with
\* XR_ERROR_VALIDATION_FAILURE before the layers are looked at.  In both cases
\* the downstream xrEndFrame is not called, m_lastSeenIPD is unchanged and the
\* application's layers are not written.
C12_NullLayerIsLayerInvalidWhenWellTyped ==
    [][ EndFrameWithNullLayer' =>
            /\ lastCall'.valid => RejectedAsLayerInvalid'
            /\ ~lastCall'.valid => lastCall'.returned = "XR_ERROR_VALIDATION_FAILURE"
            /\ ~lastCall'.dsCalled
            /\ lastCall'.appAfter = lastCall'.submitted
            /\ UNCHANGED m_lastSeenIPD ]_vars

\* A well-typed frame whose null pointer comes after a stereo projection layer,
\* submitted while m_lastSeenIPD holds a value.
C12_Witness ==
    /\ EndFrameWithNullLayer
    /\ lastCall.valid
    /\ RejectedAsLayerInvalid
    /\ m_lastSeenIPD.has
    /\ Len(lastCall.submitted) >= 2
    /\ IsStereoProjection(lastCall.submitted[1])
    /\ lastCall.submitted[2].null

\* An xrEndFrame of the capture or draw layer, well typed, on a session that has
\* a composition framework.
CompositionFrame ==
    /\ layer \in {"capture", "draw"}
    /\ lastCall.op = "xrEndFrame"
    /\ lastCall.valid
    /\ lastCall.session \in compositions

\* The SessionData constructor ran in the last call.
ConstructorRan == "SessionData" \in Range(lastCall.trace)

TracePositions(call) == {k \in 1..Len(lastCall.trace) : lastCall.trace[k] = call}

\* C14: swapchain image protocol, capture and draw layers.  In every frame that
\* submits the overlay quad, the overlay swapchain image is acquired exactly
\* once, then released, then committed, all before the downstream xrEndFrame;
\* and no acquire happens in a frame that does not submit the overlay.
C14_AcquireReleaseCommitThenSubmit ==
    (layer \in {"capture", "draw"} /\ lastCall.op = "xrEndFrame") =>
        LET submits == lastCall.dsCalled /\ OverlayPtr \in Range(lastCall.forwarded)
            acquires == TracePositions("acquireImage")
            releases == TracePositions("releaseImage")
            commits == TracePositions("commitLastReleasedImage")
            downstream == TracePositions("OpenXrApi::xrEndFrame")
        IN  /\ submits =>
                /\ Cardinality(acquires) = 1
                /\ Cardinality(releases) = 1
                /\ Cardinality(commits) = 1
                /\ \A a \in acquires, r \in releases, c \in commits, d \in downstream :
                       a < r /\ r < c /\ c < d
            /\ ~submits => acquires = {}

\* The last call on the CaptureWindowWinRT object was getSurface.
GotSurface == layer = "winrt" /\ lastCall.op = "getSurface"

\* The object references at most one capture frame, so at least one of the
\* FramePoolBuffers buffers is not held by it.
HoldsAtMostOneFrame ==
    /\ Cardinality(captureWindow.m_lastCapturedFrame) <= 1
    /\ FramePoolBuffers - Cardinality(captureWindow.m_lastCapturedFrame) >= 1

====
